---- MODULE Spec2Model ----
(***************************************************************************)
(* Model of advanced-vector/vector.h: RawMemory<T> (an owned block of raw  *)
(* slots) and Vector<T> (a block plus the count of live leading slots).    *)
(*                                                                         *)
(* The free store is modelled explicitly: every block has an identity, an  *)
(* allocation flag and one cell per slot, a cell being Raw (no live        *)
(* element) or the value of the live element in it.  Every public          *)
(* operation of Vector is one action, covering the normal return and every *)
(* exit by exception: which fallible step throws is an input of the action.*)
(***************************************************************************)
EXTENDS Integers, Sequences, FiniteSets, TLC

\* ---------------------------------------------------------------- bounds
\* Number of slots of the free store (operator new throws std::bad_alloc when
\* a request does not fit): HeapSize for the program with one Vector object,
\* TwoVecHeap for the program with two.
HeapSize == 6
TwoVecHeap == 5
\* The free store of the program that copies one Vector to another and then
\* mutates them.
CopyHeap == 3
\* The free store of the program that only appends: room for the blocks of 4
\* and of 8 slots that the fifth append holds at once.
AppendHeap == 12
\* Largest argument the driver passes to Vector(n), Reserve(n) and Resize(n).
MaxArg == 3
\* Element values the driver passes to constructors are 1..MaxVal.
MaxVal == 2

\* ----------------------------------------------------- the element type T
\* T() (value-initialisation); also the state a moved-from T is left in.
Default == 0
\* A slot that holds no live element.
Raw == -1
\* The null pointer.
Null == 0

Vals == 1..MaxVal
Elem == 0..MaxVal
Arr == {"a", "b"}

\* The capability classes of T that InitializeRawMemory distinguishes.
TTypes == {"NothrowMove", "CopyThrowMove", "MoveOnlyThrowMove"}
NothrowMoveConstructible(tt) == tt = "NothrowMove"
CopyConstructible(tt) == tt # "MoveOnlyThrowMove"
\* Move assignment of the model's T throws exactly when its move constructor may.
NothrowMoveAssignable(tt) == tt = "NothrowMove"

VARIABLES
  ttype,   \* the template argument T (its capability class)
  mem,     \* the free store: blk (block id -> block), leaked (the storage no
           \* object points to any more) and the faults of the last operation
  vec,     \* the Vector objects: alive, data_ (buffer_, capacity_), size_
  last     \* the last operation: op, at (where it threw; "none": it returned),
           \* index and x (the position and the value passed), ret (the
           \* position returned)

vars == <<ttype, mem, vec, last>>

\* ------------------------------------------------------------- free store
FreeBlk == [alloc |-> FALSE, slots |-> <<>>]

RECURSIVE RawSlots(_)
RawSlots(n) == IF n = 0 THEN <<>> ELSE Append(RawSlots(n - 1), Raw)

RECURSIVE UsedUpTo(_, _)
UsedUpTo(m, b) == IF b = 0 THEN 0 ELSE UsedUpTo(m, b - 1) + Len(m.blk[b].slots)
BlockIds(m) == DOMAIN m.blk
Limit(m) == Cardinality(BlockIds(m))
Used(m) == UsedUpTo(m, Limit(m)) + m.leaked.slots

\* operator new(n * sizeof(T)) succeeds only if the request fits.
CanAllocate(m, n) == Used(m) + n <= Limit(m)

FreshId(m) == CHOOSE b \in BlockIds(m) :
                /\ ~m.blk[b].alloc
                /\ \A c \in BlockIds(m) : ~m.blk[c].alloc => b <= c

\* RawMemory::Allocate: nullptr for n = 0, else a fresh block of n raw slots.
AllocPtr(m, n) == IF n = 0 THEN Null ELSE FreshId(m)
Allocate(m, n) ==
  IF n = 0 THEN m
  ELSE [m EXCEPT !.blk[FreshId(m)] = [alloc |-> TRUE, slots |-> RawSlots(n)]]

\* faults holds what the running operation did wrong; an operation starts
\* with none.
Clear(m) == [m EXCEPT !.faults = {}]

HasLive(slots) == \E i \in 1..Len(slots) : slots[i] # Raw

\* RawMemory::Deallocate: operator delete; it destroys no element.
Deallocate(m, p) ==
  IF p = Null THEN m
  ELSE IF ~m.blk[p].alloc THEN [m EXCEPT !.faults = @ \cup {"double_free"}]
  ELSE [m EXCEPT !.blk[p] = FreeBlk,
                 !.faults = IF HasLive(m.blk[p].slots)
                            THEN @ \cup {"element_never_destroyed"} ELSE @]

\* Slot i (0-based offset) of block p.
Get(m, p, i) == m.blk[p].slots[i + 1]

\* Placement new at slot i.
ConstructAt(m, p, i, x) ==
  [m EXCEPT !.blk[p].slots[i + 1] = x,
            !.faults = IF m.blk[p].slots[i + 1] # Raw
                       THEN @ \cup {"constructed_over_live"} ELSE @]

\* Assignment to the element in slot i.
AssignAt(m, p, i, x) ==
  [m EXCEPT !.blk[p].slots[i + 1] = x,
            !.faults = IF m.blk[p].slots[i + 1] = Raw
                       THEN @ \cup {"assigned_to_raw"} ELSE @]

\* std::destroy_at
DestroyAt(m, p, i) ==
  [m EXCEPT !.blk[p].slots[i + 1] = Raw,
            !.faults = IF m.blk[p].slots[i + 1] = Raw
                       THEN @ \cup {"double_destroy"} ELSE @]

\* std::destroy_n(p + i, n)
RECURSIVE DestroyN(_, _, _, _)
DestroyN(m, p, i, n) ==
  IF n = 0 THEN m ELSE DestroyN(DestroyAt(m, p, i), p, i + 1, n - 1)

\* The first n elements of a range are copy-constructed from sp+si.. to dp+di..
RECURSIVE CopyConstructN(_, _, _, _, _, _)
CopyConstructN(m, sp, si, n, dp, di) ==
  IF n = 0 THEN m
  ELSE CopyConstructN(ConstructAt(m, dp, di, Get(m, sp, si)),
                      sp, si + 1, n - 1, dp, di + 1)

\* The first n elements are move-constructed; each source is left moved-from.
RECURSIVE MoveConstructN(_, _, _, _, _, _)
MoveConstructN(m, sp, si, n, dp, di) ==
  IF n = 0 THEN m
  ELSE MoveConstructN(AssignAt(ConstructAt(m, dp, di, Get(m, sp, si)), sp, si, Default),
                      sp, si + 1, n - 1, dp, di + 1)

\* How many elements a range operation of n elements completes when its
\* f-th element operation throws (f = 0: none throws).
Done(n, f) == IF f = 0 THEN n ELSE f - 1

\* std::uninitialized_copy_n; on a throw it destroys what it constructed.
UninitializedCopyN(m, sp, si, n, dp, di, f) ==
  LET k == Done(n, f)
      m1 == CopyConstructN(m, sp, si, k, dp, di)
  IN IF f = 0 THEN m1 ELSE DestroyN(m1, dp, di, k)

\* std::uninitialized_move_n; on a throw it destroys what it constructed,
\* the sources already moved from stay moved-from.
UninitializedMoveN(m, sp, si, n, dp, di, f) ==
  LET k == Done(n, f)
      m1 == MoveConstructN(m, sp, si, k, dp, di)
  IN IF f = 0 THEN m1 ELSE DestroyN(m1, dp, di, k)

\* std::uninitialized_value_construct_n
RECURSIVE ValueConstructN(_, _, _, _)
ValueConstructN(m, p, i, n) ==
  IF n = 0 THEN m ELSE ValueConstructN(ConstructAt(m, p, i, Default), p, i + 1, n - 1)

UninitializedValueConstructN(m, p, i, n, f) ==
  LET k == Done(n, f)
      m1 == ValueConstructN(m, p, i, k)
  IN IF f = 0 THEN m1 ELSE DestroyN(m1, p, i, k)

\* std::copy_n: copy assignment of the first n elements, stopping at a throw.
RECURSIVE CopyAssignN(_, _, _, _, _, _)
CopyAssignN(m, sp, si, n, dp, di) ==
  IF n = 0 THEN m
  ELSE CopyAssignN(AssignAt(m, dp, di, Get(m, sp, si)), sp, si + 1, n - 1, dp, di + 1)

CopyN(m, sp, si, n, dp, di, f) == CopyAssignN(m, sp, si, Done(n, f), dp, di)

\* One move assignment inside a block: slot d takes slot s's value, slot s is
\* left moved-from.
MoveAssignAt(m, p, s, d) ==
  IF s = d THEN m ELSE AssignAt(AssignAt(m, p, d, Get(m, p, s)), p, s, Default)

\* std::move(first, last, d_first): n = last - first move assignments, front to back.
RECURSIVE MoveForwardN(_, _, _, _, _)
MoveForwardN(m, p, first, n, dfirst) ==
  IF n = 0 THEN m
  ELSE MoveForwardN(MoveAssignAt(m, p, first, dfirst), p, first + 1, n - 1, dfirst + 1)

\* std::move_backward(first, last, d_last): n move assignments, back to front.
RECURSIVE MoveBackwardN(_, _, _, _, _)
MoveBackwardN(m, p, lastx, n, dlast) ==
  IF n = 0 THEN m
  ELSE MoveBackwardN(MoveAssignAt(m, p, lastx - 1, dlast - 1), p, lastx - 1, n - 1, dlast - 1)

\* ---------------------------------------------------------------- RawMemory
NullMemory == [buffer_ |-> Null, capacity_ |-> 0]
RawMemory(m, n) == [buffer_ |-> AllocPtr(m, n), capacity_ |-> n]

\* RawMemory(RawMemory&&): the new object takes the fields, other is emptied.
RawMoveCtor(other) == [new |-> other, other |-> NullMemory]

\* operator=(RawMemory&&): the fields are overwritten; the buffer this object
\* held is not passed to Deallocate.
RawMoveAssign(self, rhs) == [self |-> rhs, rhs |-> NullMemory]

\* ~RawMemory
RawDtor(m, d) == Deallocate(m, d.buffer_)

\* ------------------------------------------------------------------ Vector
DeadVec == [alive |-> FALSE, data_ |-> NullMemory, size_ |-> 0]
EmptyVec == [alive |-> TRUE, data_ |-> NullMemory, size_ |-> 0]

Capacity(vc) == vc.data_.capacity_
Buf(vc) == vc.data_.buffer_

\* A transfer that always moves, whatever T's move constructor may do.
InitializeRawMemory_AlwaysMove(m, tt, sp, si, n, dp, di, f) ==
  UninitializedMoveN(m, sp, si, n, dp, di, f)

\* InitializeRawMemory: move when T's move cannot throw or T cannot be copied.
InitializeRawMemory(m, tt, sp, si, n, dp, di, f) ==
  IF NothrowMoveConstructible(tt) \/ ~CopyConstructible(tt)
  THEN UninitializedMoveN(m, sp, si, n, dp, di, f)
  ELSE UninitializedCopyN(m, sp, si, n, dp, di, f)

\* Whether the transfer InitializeRawMemory performs can throw for this T.
TransferCanThrow(tt) == ~NothrowMoveConstructible(tt)

\* The fallible step that throws: at names the phase, k the element within it.
NoThrow == [at |-> "none", k |-> 0]
Throw(at, ks) == {[at |-> at, k |-> k] : k \in ks}
\* The index of the throwing element of phase at (0: that phase completes).
FailIn(fl, at) == IF fl.at = at THEN fl.k ELSE 0

Outcome(op, at, index, x, ret) ==
  [op |-> op, at |-> at, index |-> index, x |-> x, ret |-> ret]
Result(m, vc, at, ret) == [mem |-> m, vc |-> vc, at |-> at, ret |-> ret]

\* RawMemory::Swap: the two objects trade buffer_ and capacity_.
RawSwap(d, other) == [self |-> other, other |-> d]

\* Storage that is allocated and that no Vector object points to can never be
\* reached again: the model keeps how many slots and live elements it holds.
Reachable(vs) == {vs[v].data_.buffer_ : v \in DOMAIN vs} \ {Null}
Orphans(m, vs) == {b \in BlockIds(m) : m.blk[b].alloc /\ b \notin Reachable(vs)}
LiveCount(slots) == Cardinality({i \in 1..Len(slots) : slots[i] # Raw})

RECURSIVE SweepSet(_, _)
SweepSet(m, S) ==
  IF S = {} THEN m
  ELSE LET b == CHOOSE c \in S : \A d \in S : c <= d IN
         SweepSet([m EXCEPT !.blk[b] = FreeBlk,
                            !.leaked.slots = @ + Len(m.blk[b].slots),
                            !.leaked.live = @ + LiveCount(m.blk[b].slots)],
                  S \ {b})
Sweep(m, vs) == SweepSet(m, Orphans(m, vs))

\* The operation ends: m is the free store, vs the objects, o what it reports.
Commit(m, vs, o) ==
  /\ mem' = Sweep(m, vs)
  /\ vec' = vs
  /\ last' = o
  /\ UNCHANGED ttype

\* Vector(): no block, size 0.
DefaultCtor(v) ==
  /\ ~vec[v].alive
  /\ Commit(Clear(mem), [vec EXCEPT ![v] = EmptyVec], Outcome("Vector", "none", 0, 0, 0))

\* Vector(size_t size): data_(size), size_(size), then value-construct size
\* elements; a throw unwinds the members, so the object never exists.
SizedCtorFails(m, n) ==
  IF ~CanAllocate(m, n) THEN {NoThrow} ELSE {NoThrow} \cup Throw("valinit", 1..n)

SizedCtorOp(m, n, fl) ==
  IF ~CanAllocate(m, n) THEN Result(m, DeadVec, "alloc", 0)
  ELSE LET d == RawMemory(m, n)
           f == FailIn(fl, "valinit")
           m1 == UninitializedValueConstructN(Allocate(m, n), d.buffer_, 0, n, f)
       IN IF f # 0 THEN Result(RawDtor(m1, d), DeadVec, "valinit", 0)
          ELSE Result(m1, [alive |-> TRUE, data_ |-> d, size_ |-> n], "none", 0)

SizedCtor(v, n) ==
  /\ ~vec[v].alive
  /\ \E fl \in SizedCtorFails(Clear(mem), n) :
       LET r == SizedCtorOp(Clear(mem), n, fl) IN
         Commit(r.mem, [vec EXCEPT ![v] = r.vc], Outcome("VectorN", r.at, 0, 0, 0))

\* A copy constructor that takes the source's block instead of copying into
\* one of its own.
CopyCtorOp_Shallow(m, other, fl) ==
  Result(m, [alive |-> TRUE, data_ |-> other.data_, size_ |-> other.size_], "none", 0)

\* A copy constructor whose block is not released when a copy throws.
CopyCtorOp_KeepsBlock(m, other, fl) ==
  IF ~CanAllocate(m, other.size_) THEN Result(m, DeadVec, "alloc", 0)
  ELSE LET d == RawMemory(m, other.size_)
           f == FailIn(fl, "copy")
           m1 == UninitializedCopyN(Allocate(m, other.size_), Buf(other), 0,
                                    other.size_, d.buffer_, 0, f)
       IN IF f # 0 THEN Result(m1, DeadVec, "copy", 0)
          ELSE Result(m1, [alive |-> TRUE, data_ |-> d, size_ |-> other.size_], "none", 0)

\* Vector(const Vector& other): data_(other.size_), size_(other.size_), then
\* uninitialized_copy_n; a throw unwinds data_.
CopyCtorFails(m, other) ==
  IF ~CanAllocate(m, other.size_) THEN {NoThrow}
  ELSE {NoThrow} \cup Throw("copy", 1..other.size_)

CopyCtorOp(m, other, fl) ==
  IF ~CanAllocate(m, other.size_) THEN Result(m, DeadVec, "alloc", 0)
  ELSE LET d == RawMemory(m, other.size_)
           f == FailIn(fl, "copy")
           m1 == UninitializedCopyN(Allocate(m, other.size_), Buf(other), 0,
                                    other.size_, d.buffer_, 0, f)
       IN IF f # 0 THEN Result(RawDtor(m1, d), DeadVec, "copy", 0)
          ELSE Result(m1, [alive |-> TRUE, data_ |-> d, size_ |-> other.size_], "none", 0)

CopyCtor(v, w) ==
  /\ CopyConstructible(ttype)
  /\ v # w /\ ~vec[v].alive /\ vec[w].alive
  /\ \E fl \in CopyCtorFails(Clear(mem), vec[w]) :
       LET r == CopyCtorOp(Clear(mem), vec[w], fl) IN
         Commit(r.mem, [vec EXCEPT ![v] = r.vc], Outcome("CopyCtor", r.at, 0, 0, 0))

\* Vector(Vector&& other): data_(std::exchange(other.data_, RawMemory<T>{})),
\* size_(std::exchange(other.size_, 0)).
MoveCtor(v, w) ==
  /\ v # w /\ ~vec[v].alive /\ vec[w].alive
  /\ LET mv == RawMoveCtor(vec[w].data_) IN
       Commit(Clear(mem),
              [vec EXCEPT ![v] = [alive |-> TRUE, data_ |-> mv.new, size_ |-> vec[w].size_],
                          ![w] = [alive |-> TRUE, data_ |-> mv.other, size_ |-> 0]],
              Outcome("MoveCtor", "none", 0, 0, 0))

\* ~Vector(): destroy_n(begin(), size_), then ~RawMemory releases the block.
Destroy(v) ==
  /\ vec[v].alive
  /\ Commit(RawDtor(DestroyN(Clear(mem), Buf(vec[v]), 0, vec[v].size_), vec[v].data_),
            [vec EXCEPT ![v] = DeadVec], Outcome("~Vector", "none", 0, 0, 0))

\* Vector::Swap: std::swap(data_, other.data_) is tmp(move(a)); a = move(b);
\* b = move(tmp); ~tmp.  std::swap(size_, other.size_).
StdSwapData(m, a, b) ==
  LET s1 == RawMoveCtor(a)                 \* tmp = s1.new, a = s1.other
      s2 == RawMoveAssign(s1.other, b)     \* a = s2.self, b = s2.rhs
      s3 == RawMoveAssign(s2.rhs, s1.new)  \* b = s3.self, tmp = s3.rhs
  IN [mem |-> RawDtor(m, s3.rhs), a |-> s2.self, b |-> s3.self]

SwapOp(m, vc, other) ==
  LET s == StdSwapData(m, vc.data_, other.data_) IN
    [mem |-> s.mem,
     vc |-> [vc EXCEPT !.data_ = s.a, !.size_ = other.size_],
     other |-> [other EXCEPT !.data_ = s.b, !.size_ = vc.size_]]

Swap(v, w) ==
  /\ v # w /\ vec[v].alive /\ vec[w].alive
  /\ LET r == SwapOp(Clear(mem), vec[v], vec[w]) IN
       Commit(r.mem, [vec EXCEPT ![v] = r.vc, ![w] = r.other], Outcome("Swap", "none", 0, 0, 0))

\* A Reserve that returns early only when new_capacity < Capacity().
ReserveOp_Eager(m, vc, tt, n, fl) ==
  IF n < Capacity(vc) THEN Result(m, vc, "none", 0)
  ELSE IF ~CanAllocate(m, n) THEN Result(m, vc, "alloc", 0)
  ELSE LET new_data == RawMemory(m, n)
           m1 == InitializeRawMemory(Allocate(m, n), tt, Buf(vc), 0, vc.size_,
                                     new_data.buffer_, 0, 0)
           m2 == DestroyN(m1, Buf(vc), 0, vc.size_)
           sw == RawSwap(vc.data_, new_data)
       IN Result(RawDtor(m2, sw.other), [vc EXCEPT !.data_ = sw.self], "none", 0)

\* Reserve(new_capacity)
ReserveFails(m, vc, tt, n) ==
  IF n <= Capacity(vc) \/ ~CanAllocate(m, n) \/ ~TransferCanThrow(tt) THEN {NoThrow}
  ELSE {NoThrow} \cup Throw("transfer", 1..vc.size_)

ReserveOp(m, vc, tt, n, fl) ==
  IF n <= Capacity(vc) THEN Result(m, vc, "none", 0)
  ELSE IF ~CanAllocate(m, n) THEN Result(m, vc, "alloc", 0)
  ELSE LET new_data == RawMemory(m, n)
           f == FailIn(fl, "transfer")
           m1 == InitializeRawMemory(Allocate(m, n), tt, Buf(vc), 0, vc.size_,
                                     new_data.buffer_, 0, f)
       IN IF f # 0 THEN Result(RawDtor(m1, new_data), vc, "transfer", 0)
          ELSE LET m2 == DestroyN(m1, Buf(vc), 0, vc.size_)
                   sw == RawSwap(vc.data_, new_data)
               IN Result(RawDtor(m2, sw.other), [vc EXCEPT !.data_ = sw.self], "none", 0)

Reserve(v, n) ==
  /\ vec[v].alive
  /\ \E fl \in ReserveFails(Clear(mem), vec[v], ttype, n) :
       LET r == ReserveOp(Clear(mem), vec[v], ttype, n, fl) IN
         Commit(r.mem, [vec EXCEPT ![v] = r.vc], Outcome("Reserve", r.at, 0, 0, 0))

\* A shrinking Resize that sets size_ without destroying the trailing elements.
ResizeOp_NoDestroy(m, vc, tt, n, fl) ==
  IF n < vc.size_ THEN Result(m, [vc EXCEPT !.size_ = n], "none", 0)
  ELSE LET r == ReserveOp(m, vc, tt, n, fl) IN
         IF r.at # "none" THEN r
         ELSE LET f == FailIn(fl, "valinit")
                  m1 == UninitializedValueConstructN(r.mem, Buf(r.vc), vc.size_,
                                                     n - vc.size_, f)
              IN IF f # 0 THEN Result(m1, r.vc, "valinit", 0)
                 ELSE Result(m1, [r.vc EXCEPT !.size_ = n], "none", 0)

\* Resize(new_size)
ResizeFails(m, vc, tt, n) ==
  IF n < vc.size_ THEN {NoThrow}
  ELSE ReserveFails(m, vc, tt, n)
       \cup (IF n <= Capacity(vc) \/ CanAllocate(m, n)
             THEN Throw("valinit", 1..(n - vc.size_)) ELSE {})

ResizeOp(m, vc, tt, n, fl) ==
  IF n < vc.size_
  THEN Result(DestroyN(m, Buf(vc), n, vc.size_ - n), [vc EXCEPT !.size_ = n], "none", 0)
  ELSE LET r == ReserveOp(m, vc, tt, n, fl) IN
         IF r.at # "none" THEN r
         ELSE LET f == FailIn(fl, "valinit")
                  m1 == UninitializedValueConstructN(r.mem, Buf(r.vc), vc.size_,
                                                     n - vc.size_, f)
              IN IF f # 0 THEN Result(m1, r.vc, "valinit", 0)
                 ELSE Result(m1, [r.vc EXCEPT !.size_ = n], "none", 0)

Resize(v, n) ==
  /\ vec[v].alive
  /\ \E fl \in ResizeFails(Clear(mem), vec[v], ttype, n) :
       LET r == ResizeOp(Clear(mem), vec[v], ttype, n, fl) IN
         Commit(r.mem, [vec EXCEPT ![v] = r.vc], Outcome("Resize", r.at, 0, 0, 0))

\* PopBack(): destroy_at(begin() + size_ - 1); --size_.  Precondition: size_ > 0.
PopBackOp(m, vc) ==
  Result(DestroyAt(m, Buf(vc), vc.size_ - 1), [vc EXCEPT !.size_ = @ - 1], "none", 0)

PopBack(v) ==
  /\ vec[v].alive /\ vec[v].size_ > 0
  /\ LET r == PopBackOp(Clear(mem), vec[v]) IN
       Commit(r.mem, [vec EXCEPT ![v] = r.vc], Outcome("PopBack", "none", 0, 0, 0))

\* A handler that rethrows without destroying the new element.
EmplaceBackCatch_Skip(m, nb, size) == m

\* EmplaceBack's handler of a throwing transfer: destroy_at(new_data + size_).
EmplaceBackCatch(m, nb, size) == DestroyAt(m, nb, size)

\* A tail handler that destroys the head range and forgets the new element.
EmplaceTailCatch_HeadOnly(m, nb, index) == DestroyN(m, nb, 0, index)

\* A shift with std::move where move_backward is needed: it runs front to back
\* over the overlapping ranges.
ShiftRight_Forward(m, p, index, n, fs) ==
  MoveForwardN(m, p, index, Done(n - 1 - index, fs), index + 1)

\* A shift that starts at begin() instead of begin() + index.
ShiftRight_FromBegin(m, p, index, n, fs) == MoveBackwardN(m, p, n - 1, n - 1, n)

\* Emplace's handlers: of a throwing head transfer, destroy_at(new_data + index);
\* of a throwing tail transfer, destroy_n(new_data, index + 1).
EmplaceHeadCatch(m, nb, index) == DestroyAt(m, nb, index)
EmplaceTailCatch(m, nb, index) == DestroyN(m, nb, 0, index + 1)

\* Emplace with spare capacity: move_backward(begin() + index, end() - 1, end()),
\* stopped by the fs-th move assignment throwing.
ShiftRight(m, p, index, n, fs) == MoveBackwardN(m, p, n - 1, Done(n - 1 - index, fs), n)

\* A growth by one slot instead of doubling.
GrowCapacity_PlusOne(vc) == vc.size_ + 1

\* Capacity of the block a growing EmplaceBack/Emplace allocates.
GrowCapacity(vc) == IF vc.size_ = 0 THEN 1 ELSE vc.size_ * 2

\* EmplaceBack(args...) (PushBack forwards to it); x is the value T(args...) has.
EmplaceBackFails(m, vc, tt) ==
  IF vc.size_ = Capacity(vc)
  THEN IF ~CanAllocate(m, GrowCapacity(vc)) THEN {NoThrow}
       ELSE {NoThrow} \cup Throw("ctor", {1})
            \cup (IF TransferCanThrow(tt) THEN Throw("transfer", 1..vc.size_) ELSE {})
  ELSE {NoThrow} \cup Throw("ctor", {1})

EmplaceBackOp(m, vc, tt, x, fl) ==
  IF vc.size_ = Capacity(vc)
  THEN IF ~CanAllocate(m, GrowCapacity(vc)) THEN Result(m, vc, "alloc", 0)
       ELSE LET new_data == RawMemory(m, GrowCapacity(vc))
                m0 == Allocate(m, GrowCapacity(vc))
            IN IF fl.at = "ctor" THEN Result(RawDtor(m0, new_data), vc, "ctor", 0)
               ELSE LET m1 == ConstructAt(m0, new_data.buffer_, vc.size_, x)
                        f == FailIn(fl, "transfer")
                        m2 == InitializeRawMemory(m1, tt, Buf(vc), 0, vc.size_,
                                                  new_data.buffer_, 0, f)
                    IN IF f # 0
                       THEN Result(RawDtor(EmplaceBackCatch(m2, new_data.buffer_, vc.size_),
                                           new_data),
                                   vc, "transfer", 0)
                       ELSE LET m3 == DestroyN(m2, Buf(vc), 0, vc.size_)
                                sw == RawSwap(vc.data_, new_data)
                            IN Result(RawDtor(m3, sw.other),
                                      [vc EXCEPT !.data_ = sw.self, !.size_ = @ + 1],
                                      "none", 0)
  ELSE IF fl.at = "ctor" THEN Result(m, vc, "ctor", 0)
       ELSE Result(ConstructAt(m, Buf(vc), vc.size_, x), [vc EXCEPT !.size_ = @ + 1],
                   "none", 0)

EmplaceBack(v, x) ==
  /\ vec[v].alive
  /\ \E fl \in EmplaceBackFails(Clear(mem), vec[v], ttype) :
       LET r == EmplaceBackOp(Clear(mem), vec[v], ttype, x, fl) IN
         Commit(r.mem, [vec EXCEPT ![v] = r.vc], Outcome("EmplaceBack", r.at, 0, x, 0))

\* Emplace(pos, args...) with index = pos - begin() (Insert forwards to it).
EmplaceFails(m, vc, tt, index) ==
  IF vc.size_ = Capacity(vc)
  THEN IF ~CanAllocate(m, GrowCapacity(vc)) THEN {NoThrow}
       ELSE {NoThrow} \cup Throw("ctor", {1})
            \cup (IF TransferCanThrow(tt)
                  THEN Throw("head", 1..index) \cup Throw("tail", 1..(vc.size_ - index))
                  ELSE {})
  ELSE IF vc.size_ # index
       THEN {NoThrow} \cup Throw("ctor", {1})
            \cup (IF NothrowMoveConstructible(tt) THEN {} ELSE Throw("last", {1}))
            \cup (IF NothrowMoveAssignable(tt) THEN {}
                  ELSE Throw("shift", 1..(vc.size_ - 1 - index)) \cup Throw("assign", {1}))
       ELSE {NoThrow} \cup Throw("ctor", {1})

\* A growing path that transfers the existing elements first and constructs
\* the new element last.
EmplaceGrow_TransferFirst(m, vc, tt, index, x, fl) ==
  IF ~CanAllocate(m, GrowCapacity(vc)) THEN Result(m, vc, "alloc", 0)
  ELSE LET new_data == RawMemory(m, GrowCapacity(vc))
           nb == new_data.buffer_
           m0 == Allocate(m, GrowCapacity(vc))
           fh == FailIn(fl, "head")
           m1 == InitializeRawMemory(m0, tt, Buf(vc), 0, index, nb, 0, fh)
       IN IF fh # 0 THEN Result(RawDtor(m1, new_data), vc, "head", 0)
          ELSE LET ft == FailIn(fl, "tail")
                   m2 == InitializeRawMemory(m1, tt, Buf(vc), index,
                                             vc.size_ - index, nb, index + 1, ft)
               IN IF ft # 0
                  THEN Result(RawDtor(DestroyN(m2, nb, 0, index), new_data), vc, "tail", 0)
                  ELSE IF fl.at = "ctor"
                  THEN Result(RawDtor(DestroyN(DestroyN(m2, nb, 0, index),
                                               nb, index + 1, vc.size_ - index),
                                      new_data),
                              vc, "ctor", 0)
                  ELSE LET m3 == ConstructAt(m2, nb, index, x)
                           m4 == DestroyN(m3, Buf(vc), 0, vc.size_)
                           sw == RawSwap(vc.data_, new_data)
                       IN Result(RawDtor(m4, sw.other),
                                 [vc EXCEPT !.data_ = sw.self, !.size_ = @ + 1],
                                 "none", index)

\* The growing path (size_ == Capacity()), lines 249-264.
EmplaceGrow(m, vc, tt, index, x, fl) ==
  IF ~CanAllocate(m, GrowCapacity(vc)) THEN Result(m, vc, "alloc", 0)
  ELSE LET new_data == RawMemory(m, GrowCapacity(vc))
           nb == new_data.buffer_
           m0 == Allocate(m, GrowCapacity(vc))
       IN IF fl.at = "ctor" THEN Result(RawDtor(m0, new_data), vc, "ctor", 0)
          ELSE LET m1 == ConstructAt(m0, nb, index, x)
                   fh == FailIn(fl, "head")
                   m2 == InitializeRawMemory(m1, tt, Buf(vc), 0, index, nb, 0, fh)
               IN IF fh # 0
                  THEN Result(RawDtor(EmplaceHeadCatch(m2, nb, index), new_data), vc, "head", 0)
                  ELSE LET ft == FailIn(fl, "tail")
                           m3 == InitializeRawMemory(m2, tt, Buf(vc), index,
                                                     vc.size_ - index, nb, index + 1, ft)
                       IN IF ft # 0
                          THEN Result(RawDtor(EmplaceTailCatch(m3, nb, index), new_data),
                                      vc, "tail", 0)
                          ELSE LET m4 == DestroyN(m3, Buf(vc), 0, vc.size_)
                                   sw == RawSwap(vc.data_, new_data)
                               IN Result(RawDtor(m4, sw.other),
                                         [vc EXCEPT !.data_ = sw.self, !.size_ = @ + 1],
                                         "none", index)

\* The path with spare capacity, lines 266-272.
EmplaceInPlace(m, vc, tt, index, x, fl) ==
  LET p == Buf(vc)
      n == vc.size_
  IN IF n # index
     THEN IF fl.at = "last" THEN Result(m, vc, "last", 0)
          ELSE LET m1 == AssignAt(ConstructAt(m, p, n, Get(m, p, n - 1)), p, n - 1, Default)
                   fs == FailIn(fl, "shift")
                   m2 == ShiftRight(m1, p, index, n, fs)
               IN IF fs # 0 THEN Result(m2, vc, "shift", 0)
                  ELSE IF fl.at \in {"ctor", "assign"} THEN Result(m2, vc, fl.at, 0)
                  ELSE Result(AssignAt(m2, p, index, x), [vc EXCEPT !.size_ = @ + 1],
                              "none", index)
     ELSE IF fl.at = "ctor" THEN Result(m, vc, "ctor", 0)
          ELSE Result(ConstructAt(m, p, index, x), [vc EXCEPT !.size_ = @ + 1],
                      "none", index)

EmplaceOp(m, vc, tt, index, x, fl) ==
  IF vc.size_ = Capacity(vc) THEN EmplaceGrow(m, vc, tt, index, x, fl)
  ELSE EmplaceInPlace(m, vc, tt, index, x, fl)

Emplace(v, index, x) ==
  /\ vec[v].alive /\ index <= vec[v].size_
  /\ \E fl \in EmplaceFails(Clear(mem), vec[v], ttype, index) :
       LET r == EmplaceOp(Clear(mem), vec[v], ttype, index, x, fl) IN
         Commit(r.mem, [vec EXCEPT ![v] = r.vc], Outcome("Emplace", r.at, index, x, r.ret))

\* An Erase that drops the last element without shifting the tail.
EraseOp_NoShift(m, vc, tt, index, fl) ==
  Result(DestroyAt(m, Buf(vc), vc.size_ - 1), [vc EXCEPT !.size_ = @ - 1], "none", index)

\* Emplace with spare capacity when the argument is a reference to element j of
\* this Vector: T(args...) reads the referent where line 269 (or 271) runs,
\* that is after the last element was moved out and the tail was shifted.
EmplaceInPlaceRef(m, vc, tt, index, j, fl) ==
  LET p == Buf(vc)
      n == vc.size_
  IN IF n # index
     THEN IF fl.at = "last" THEN Result(m, vc, "last", 0)
          ELSE LET m1 == AssignAt(ConstructAt(m, p, n, Get(m, p, n - 1)), p, n - 1, Default)
                   fs == FailIn(fl, "shift")
                   m2 == ShiftRight(m1, p, index, n, fs)
               IN IF fs # 0 THEN Result(m2, vc, "shift", 0)
                  ELSE IF fl.at \in {"ctor", "assign"} THEN Result(m2, vc, fl.at, 0)
                  ELSE Result(AssignAt(m2, p, index, Get(m2, p, j)),
                              [vc EXCEPT !.size_ = @ + 1], "none", index)
     ELSE EmplaceInPlace(m, vc, tt, index, Get(m, p, j), fl)

\* Insert(begin() + index, (*this)[j]): on the growing path T(args...) reads
\* the referent first of all (line 250), in the old block.
InsertOwnOp(m, vc, tt, index, j, fl) ==
  IF vc.size_ = Capacity(vc) THEN EmplaceGrow(m, vc, tt, index, Get(m, Buf(vc), j), fl)
  ELSE EmplaceInPlaceRef(m, vc, tt, index, j, fl)

\* last'.x reports the value element j held when Insert was called.
InsertOwn(v, index, j) ==
  /\ CopyConstructible(ttype)
  /\ vec[v].alive /\ index <= vec[v].size_ /\ j < vec[v].size_
  /\ \E fl \in EmplaceFails(Clear(mem), vec[v], ttype, index) :
       LET r == InsertOwnOp(Clear(mem), vec[v], ttype, index, j, fl) IN
         Commit(r.mem, [vec EXCEPT ![v] = r.vc],
                Outcome("InsertOwn", r.at, index, Get(mem, Buf(vec[v]), j), r.ret))

\* PushBack((*this)[j]): EmplaceBack constructs the new element from the
\* referent before it transfers or destroys anything (lines 228, 238).
PushBackOwn(v, j) ==
  /\ CopyConstructible(ttype)
  /\ vec[v].alive /\ j < vec[v].size_
  /\ \E fl \in EmplaceBackFails(Clear(mem), vec[v], ttype) :
       LET x == Get(mem, Buf(vec[v]), j)
           r == EmplaceBackOp(Clear(mem), vec[v], ttype, x, fl)
       IN Commit(r.mem, [vec EXCEPT ![v] = r.vc], Outcome("PushBackOwn", r.at, 0, x, 0))

\* Erase(pos) with index = pos - begin(): std::move the tail one slot left,
\* then PopBack.
EraseFails(vc, tt, index) ==
  IF NothrowMoveAssignable(tt) THEN {NoThrow}
  ELSE {NoThrow} \cup Throw("shift", 1..(vc.size_ - 1 - index))

EraseOp(m, vc, tt, index, fl) ==
  LET f == FailIn(fl, "shift")
      m1 == MoveForwardN(m, Buf(vc), index + 1, Done(vc.size_ - 1 - index, f), index)
  IN IF f # 0 THEN Result(m1, vc, "shift", 0)
     ELSE LET r == PopBackOp(m1, vc) IN Result(r.mem, r.vc, "none", index)

Erase(v, index) ==
  /\ vec[v].alive /\ index < vec[v].size_
  /\ \E fl \in EraseFails(vec[v], ttype, index) :
       LET r == EraseOp(Clear(mem), vec[v], ttype, index, fl) IN
         Commit(r.mem, [vec EXCEPT ![v] = r.vc], Outcome("Erase", r.at, index, 0, r.ret))

Min(a, b) == IF a < b THEN a ELSE b

\* operator=(const Vector& rhs), this != &rhs.
CopyAssignFails(m, vc, rhs) ==
  IF rhs.size_ > Capacity(vc) THEN CopyCtorFails(m, rhs)
  ELSE {NoThrow} \cup Throw("assign", 1..Min(vc.size_, rhs.size_))
       \cup Throw("uninit_copy", 1..(rhs.size_ - vc.size_))

\* rhs.size_ > data_.Capacity(): Vector rhs_copy(rhs); Swap(rhs_copy); ~rhs_copy.
CopyAssignRealloc(m, vc, rhs, fl) ==
  LET c == CopyCtorOp(m, rhs, fl) IN
    IF c.at # "none" THEN Result(c.mem, vc, c.at, 0)
    ELSE LET s == SwapOp(c.mem, vc, c.vc)
             t == s.other
         IN Result(RawDtor(DestroyN(s.mem, Buf(t), 0, t.size_), t.data_), s.vc, "none", 0)

\* An in-place copy assignment that sets size_ = rhs.size_ before it copies.
CopyAssignInPlace_SizeFirst(m, vc, rhs, fl) ==
  LET nv == [vc EXCEPT !.size_ = rhs.size_] IN
  IF rhs.size_ < vc.size_
  THEN LET f == FailIn(fl, "assign")
           m1 == CopyN(m, Buf(rhs), 0, rhs.size_, Buf(vc), 0, f)
       IN IF f # 0 THEN Result(m1, nv, "assign", 0)
          ELSE Result(DestroyN(m1, Buf(vc), rhs.size_, vc.size_ - rhs.size_), nv, "none", 0)
  ELSE LET f == FailIn(fl, "assign")
           m1 == CopyN(m, Buf(rhs), 0, vc.size_, Buf(vc), 0, f)
       IN IF f # 0 THEN Result(m1, nv, "assign", 0)
          ELSE LET g == FailIn(fl, "uninit_copy")
                   m2 == UninitializedCopyN(m1, Buf(rhs), vc.size_, rhs.size_ - vc.size_,
                                            Buf(vc), vc.size_, g)
               IN IF g # 0 THEN Result(m2, nv, "uninit_copy", 0)
                  ELSE Result(m2, nv, "none", 0)

\* rhs.size_ <= data_.Capacity(): assign over the common prefix, then destroy
\* the surplus or copy-construct the rest; size_ = rhs.size_ comes last.
CopyAssignInPlace(m, vc, rhs, fl) ==
  IF rhs.size_ < vc.size_
  THEN LET f == FailIn(fl, "assign")
           m1 == CopyN(m, Buf(rhs), 0, rhs.size_, Buf(vc), 0, f)
       IN IF f # 0 THEN Result(m1, vc, "assign", 0)
          ELSE Result(DestroyN(m1, Buf(vc), rhs.size_, vc.size_ - rhs.size_),
                      [vc EXCEPT !.size_ = rhs.size_], "none", 0)
  ELSE LET f == FailIn(fl, "assign")
           m1 == CopyN(m, Buf(rhs), 0, vc.size_, Buf(vc), 0, f)
       IN IF f # 0 THEN Result(m1, vc, "assign", 0)
          ELSE LET g == FailIn(fl, "uninit_copy")
                   m2 == UninitializedCopyN(m1, Buf(rhs), vc.size_, rhs.size_ - vc.size_,
                                            Buf(vc), vc.size_, g)
               IN IF g # 0 THEN Result(m2, vc, "uninit_copy", 0)
                  ELSE Result(m2, [vc EXCEPT !.size_ = rhs.size_], "none", 0)

CopyAssignOp(m, vc, rhs, fl) ==
  IF rhs.size_ > Capacity(vc) THEN CopyAssignRealloc(m, vc, rhs, fl)
  ELSE CopyAssignInPlace(m, vc, rhs, fl)

CopyAssign(v, w) ==
  /\ CopyConstructible(ttype)
  /\ vec[v].alive /\ vec[w].alive
  /\ IF v = w
     THEN Commit(Clear(mem), vec, Outcome("CopyAssign", "none", 0, 0, 0))
     ELSE \E fl \in CopyAssignFails(Clear(mem), vec[v], vec[w]) :
            LET r == CopyAssignOp(Clear(mem), vec[v], vec[w], fl) IN
              Commit(r.mem, [vec EXCEPT ![v] = r.vc], Outcome("CopyAssign", r.at, 0, 0, 0))

\* A move assignment that leaves rhs.size_ as it was.
MoveAssignOp_KeepsSize(m, vc, rhs) ==
  LET ex == RawMoveCtor(rhs.data_)
      as == RawMoveAssign(vc.data_, ex.new)
  IN [mem |-> RawDtor(m, as.rhs),
      vc |-> [vc EXCEPT !.data_ = as.self, !.size_ = rhs.size_],
      rhs |-> [rhs EXCEPT !.data_ = ex.other]]

\* operator=(Vector&& rhs), this != &rhs:
\* data_ = std::exchange(rhs.data_, RawMemory<T>{}); size_ = std::exchange(rhs.size_, 0).
MoveAssignOp(m, vc, rhs) ==
  LET ex == RawMoveCtor(rhs.data_)                \* exchange: old_value(move(rhs.data_))
      as == RawMoveAssign(vc.data_, ex.new)       \* data_ = <returned temporary>
  IN [mem |-> RawDtor(m, as.rhs),                 \* the temporary dies, emptied
      vc |-> [vc EXCEPT !.data_ = as.self, !.size_ = rhs.size_],
      rhs |-> [rhs EXCEPT !.data_ = ex.other, !.size_ = 0]]

MoveAssign(v, w) ==
  /\ vec[v].alive /\ vec[w].alive
  /\ IF v = w
     THEN Commit(Clear(mem), vec, Outcome("MoveAssign", "none", 0, 0, 0))
     ELSE LET r == MoveAssignOp(Clear(mem), vec[v], vec[w]) IN
            Commit(r.mem, [vec EXCEPT ![v] = r.vc, ![w] = r.rhs],
                   Outcome("MoveAssign", "none", 0, 0, 0))

\* operator[](index) used to assign to an element: v[index] = x.
\* Precondition: index < size_.
Write(v, index, x) ==
  /\ vec[v].alive /\ index < vec[v].size_
  /\ Commit(AssignAt(Clear(mem), Buf(vec[v]), index, x), vec,
            Outcome("Write", "none", index, x, 0))

InitMem(n) == [blk |-> [b \in 1..n |-> FreeBlk],
               leaked |-> [slots |-> 0, live |-> 0],
               faults |-> {}]

\* A program with the Vector objects vs and a free store of n slots.
InitWith(vs, n) ==
  /\ ttype \in TTypes
  /\ mem = InitMem(n)
  /\ vec = [v \in vs |-> DeadVec]
  /\ last = Outcome("init", "none", 0, 0, 0)

Objs == DOMAIN vec
Args == 0..MaxArg
Indexes == 0..Limit(mem)

\* -------------------------------------------- the program with one Vector
Init == InitWith({"a"}, HeapSize)

Next ==
  \/ \E v \in Objs : DefaultCtor(v)
  \/ \E v \in Objs, n \in Args : SizedCtor(v, n)
  \/ \E v \in Objs : Destroy(v)
  \/ \E v \in Objs, n \in Args : Reserve(v, n)
  \/ \E v \in Objs, n \in Args : Resize(v, n)
  \/ \E v \in Objs, x \in Vals : EmplaceBack(v, x)
  \/ \E v \in Objs : PopBack(v)
  \/ \E v \in Objs, index \in Indexes, x \in Vals : Emplace(v, index, x)
  \/ \E v \in Objs, index \in Indexes : Erase(v, index)

Spec == Init /\ [][Next]_vars

\* ------------------------------------------- the program with two Vectors
InitTwo == InitWith({"a", "b"}, TwoVecHeap)

NextTwo ==
  \/ \E v \in Objs : DefaultCtor(v)
  \/ \E v, w \in Objs : CopyCtor(v, w)
  \/ \E v, w \in Objs : MoveCtor(v, w)
  \/ \E v \in Objs : Destroy(v)
  \/ \E v, w \in Objs : CopyAssign(v, w)
  \/ \E v, w \in Objs : MoveAssign(v, w)
  \/ \E v, w \in Objs : Swap(v, w)
  \/ \E v \in Objs, n \in Args : Reserve(v, n)
  \/ \E v \in Objs, x \in Vals : EmplaceBack(v, x)
  \/ \E v \in Objs : PopBack(v)

SpecTwo == InitTwo /\ [][NextTwo]_vars

\* ------------------------------- the program that appends to a fresh Vector
InitAppend == InitWith({"a"}, AppendHeap)

NextAppend ==
  \/ \E v \in Objs : DefaultCtor(v)
  \/ \E v \in Objs, x \in Vals : EmplaceBack(v, x)
  \/ \E v \in Objs : Destroy(v)

SpecAppend == InitAppend /\ [][NextAppend]_vars

\* ------------------------------ the program that copies and then mutates
NextCopy ==
  \/ \E v \in Objs : DefaultCtor(v)
  \/ \E v, w \in Objs : CopyCtor(v, w)
  \/ \E v \in Objs : Destroy(v)
  \/ \E v, w \in Objs : CopyAssign(v, w)
  \/ \E v \in Objs, n \in Args : Resize(v, n)
  \/ \E v \in Objs, x \in Vals : EmplaceBack(v, x)
  \/ \E v \in Objs : PopBack(v)
  \/ \E v \in Objs, index \in Indexes, x \in Vals : Emplace(v, index, x)
  \/ \E v \in Objs, index \in Indexes : Erase(v, index)
  \/ \E v \in Objs, index \in Indexes, x \in Vals : Write(v, index, x)

\* Copying needs a copy-constructible T.
InitCopy == InitWith({"a", "b"}, CopyHeap) /\ CopyConstructible(ttype)

SpecCopy == InitCopy /\ [][NextCopy]_vars

\* ------------------- the program that inserts a Vector's own elements into it
InitAlias == InitWith({"a"}, HeapSize) /\ CopyConstructible(ttype)

NextAlias ==
  \/ \E v \in Objs : DefaultCtor(v)
  \/ \E v \in Objs : Destroy(v)
  \/ \E v \in Objs, n \in Args : Reserve(v, n)
  \/ \E v \in Objs, x \in Vals : EmplaceBack(v, x)
  \/ \E v \in Objs, index \in Indexes, j \in Indexes : InsertOwn(v, index, j)
  \/ \E v \in Objs, j \in Indexes : PushBackOwn(v, j)

SpecAlias == InitAlias /\ [][NextAlias]_vars

\* ================================================================= claims
\* What an observer of Vector v sees.
Slots(m, vc) == IF Buf(vc) = Null THEN <<>> ELSE m.blk[Buf(vc)].slots
Contents(m, vc) == SubSeq(Slots(m, vc), 1, vc.size_)
Allocated(m) == {b \in BlockIds(m) : m.blk[b].alloc}

\* Slots [0, size_) of v's block hold live elements, slots [size_, capacity_)
\* hold none, and the block has capacity_ slots.
WellFormed(m, vc) ==
  /\ 0 <= vc.size_ /\ vc.size_ <= Capacity(vc)
  /\ Len(Slots(m, vc)) = Capacity(vc)
  /\ \A i \in 1..Capacity(vc) : (Slots(m, vc)[i] # Raw) <=> (i <= vc.size_)

\* The step released every block it allocated, destroyed every element it
\* constructed exactly once, and lost no storage.
NothingLeftBehind ==
  /\ Allocated(mem') = Allocated(mem)
  /\ mem'.leaked = mem.leaked
  /\ mem'.faults = {}

\* The step left Vector v as it was: size, capacity, block and every slot.
Untouched(v) ==
  /\ vec'[v] = vec[v]
  /\ Slots(mem', vec'[v]) = Slots(mem, vec[v])

\* t is s with its first k elements (some k) left in the moved-from state.
MovedFromPrefix(s, t) ==
  /\ Len(t) = Len(s)
  /\ \E k \in 0..Len(s) : \A i \in 1..Len(s) : t[i] = IF i <= k THEN Default ELSE s[i]

\* The step left v's size, capacity and block as they were, and its elements
\* too, except that a prefix of them may be moved-from.
UntouchedButMovedFrom(v) ==
  /\ vec'[v] = vec[v]
  /\ MovedFromPrefix(Slots(mem, vec[v]), Slots(mem', vec'[v]))

\* What a failed reallocation leaves of v: everything when the transfer
\* copies, a moved-from prefix when T cannot be copied and its move throws.
AfterFailedTransfer(v) ==
  /\ NothingLeftBehind
  /\ IF CopyConstructible(ttype) THEN Untouched(v) ELSE UntouchedButMovedFrom(v)

InsertAt(s, i, x) == SubSeq(s, 1, i) \o <<x>> \o SubSeq(s, i + 1, Len(s))

\* C1: after every operation, failed ones included, every Vector has
\* 0 <= size <= capacity, exactly the slots [0, size) of its block hold live
\* elements and the slots [size, capacity) hold none.
C1_SizeAndLiveness ==
  \A v \in Objs : vec[v].alive => WellFormed(mem, vec[v])

C4_ResizeStrongGuarantee ==
  [][(last'.op = "Resize" /\ last'.at # "none")
     => (Untouched("a") /\ NothingLeftBehind)]_vars

C10_EmplaceResult ==
  [][(last'.op = "Emplace" /\ last'.at = "none")
     => /\ Contents(mem', vec'["a"]) = InsertAt(Contents(mem, vec["a"]), last'.index, last'.x)
        /\ vec'["a"].size_ = vec["a"].size_ + 1
        /\ last'.ret = last'.index]_vars

\* An Emplace in the middle of a Vector returned.
C10_Witness ==
  /\ last.op = "Emplace" /\ last.at = "none"
  /\ last.index >= 1 /\ last.index + 1 < vec["a"].size_

\* t is s with its first k elements (some k) replaced by those of src.
OverwrittenPrefix(s, src, t) ==
  /\ Len(t) = Len(s)
  /\ \E k \in 0..Min(Len(s), Len(src)) :
       \A i \in 1..Len(s) : t[i] = IF i <= k THEN src[i] ELSE s[i]

\* C6: when an element copy throws in copy construction, or in copy assignment
\* from a source larger than the destination's capacity, the elements copied
\* are destroyed, the new block is released, and the source and the
\* destination are unchanged.
C6_CopyFailure ==
  [][(last'.op \in {"CopyCtor", "CopyAssign"} /\ last'.at = "copy")
     => ((\A v \in Objs : Untouched(v)) /\ NothingLeftBehind)]_vars

\* A copy assignment onto a non-empty Vector, from a source larger than its
\* capacity, threw while copying.
C6_Witness ==
  /\ last.op = "CopyAssign" /\ last.at = "copy"
  /\ \E v, w \in Objs : /\ vec[v].alive /\ vec[w].alive
                        /\ vec[v].size_ >= 1
                        /\ vec[w].size_ > Capacity(vec[v])

\* C7: when an element operation throws in the in-place copy assignment, the
\* destination keeps its size and capacity, its slots [0, size) are live (a
\* prefix of them overwritten with the source's values), no slot from size
\* on is live, and the source is unchanged.
C7_InPlaceCopyAssignFailure ==
  [][(last'.op = "CopyAssign" /\ last'.at \in {"assign", "uninit_copy"})
     => /\ NothingLeftBehind
        /\ \E v, w \in Objs :
             /\ v # w /\ vec[w].size_ <= Capacity(vec[v])
             /\ Untouched(w)
             /\ vec'[v] = vec[v]
             /\ WellFormed(mem', vec'[v])
             /\ OverwrittenPrefix(Contents(mem, vec[v]), Contents(mem, vec[w]),
                                  Contents(mem', vec'[v]))]_vars

\* An in-place copy assignment threw after overwriting the first element of
\* the destination with a different value.
C7_Witness ==
  /\ last.op = "CopyAssign" /\ last.at = "assign"
  /\ \E v, w \in Objs : /\ v # w /\ vec[v].alive /\ vec[w].alive
                        /\ vec[v].size_ >= 2 /\ vec[w].size_ >= 2
                        /\ Contents(mem, vec[v])[1] = Contents(mem, vec[w])[1]
                        /\ Contents(mem, vec[v])[2] # Contents(mem, vec[w])[2]

\* C8: every allocated block is owned by exactly one Vector, no block is
\* released twice, and once every Vector is destroyed no block is left
\* allocated.
C8_LinearOwnership ==
  /\ \A b \in Allocated(mem) :
       Cardinality({v \in Objs : vec[v].alive /\ Buf(vec[v]) = b}) = 1
  /\ mem.leaked.slots = 0
  /\ "double_free" \notin mem.faults

\* C9: every element constructed is destroyed exactly once: none is destroyed
\* twice, none is released or abandoned while live, and once every Vector is
\* destroyed no live element is left.
C9_DestroyedExactlyOnce ==
  /\ "double_destroy" \notin mem.faults
  /\ "element_never_destroyed" \notin mem.faults
  /\ mem.leaked.live = 0
  /\ (\A v \in Objs : ~vec[v].alive) => \A b \in BlockIds(mem) : ~HasLive(mem.blk[b].slots)

RemoveAt(s, i) == SubSeq(s, 1, i) \o SubSeq(s, i + 2, Len(s))

\* C11: a successful Erase at index i of contents s leaves s[0..i) s[i+1..size),
\* takes one from size, leaves the capacity and the block as they were and
\* returns position i.
C11_EraseResult ==
  [][(last'.op = "Erase" /\ last'.at = "none")
     => /\ Contents(mem', vec'["a"]) = RemoveAt(Contents(mem, vec["a"]), last'.index)
        /\ vec'["a"].size_ = vec["a"].size_ - 1
        /\ vec'["a"].data_ = vec["a"].data_
        /\ last'.ret = last'.index]_vars

\* An Erase in the middle of a Vector of at least three elements returned.
C11_Witness ==
  /\ last.op = "Erase" /\ last.at = "none"
  /\ last.index >= 1 /\ last.index < vec["a"].size_

Max(a, b) == IF a > b THEN a ELSE b

\* The smallest power of two >= k, searched upwards from p.
RECURSIVE PowerOfTwoFrom(_, _)
PowerOfTwoFrom(k, p) == IF p >= k THEN p ELSE PowerOfTwoFrom(k, 2 * p)

\* C12: a Vector built by k successful appends to an empty (default
\* constructed) Vector has size k and capacity the smallest power of two >= k,
\* and its contents are the appended values in order: each append adds its
\* value at the end; an append changes the capacity only when size = capacity,
\* and then to max(1, 2 * capacity).
C12_AppendGrowth ==
  /\ [](vec["a"].alive =>
          Capacity(vec["a"]) = IF vec["a"].size_ = 0 THEN 0
                               ELSE PowerOfTwoFrom(vec["a"].size_, 1))
  /\ [][(last'.op = "EmplaceBack")
        => /\ Capacity(vec'["a"]) =
                IF last'.at = "none" /\ vec["a"].size_ = Capacity(vec["a"])
                THEN Max(1, 2 * Capacity(vec["a"])) ELSE Capacity(vec["a"])
           /\ last'.at = "none" =>
                /\ vec'["a"].size_ = vec["a"].size_ + 1
                /\ Contents(mem', vec'["a"]) = Append(Contents(mem, vec["a"]), last'.x)]_vars

\* The fifth append in a row returned: size 5 in a block of 8 slots.
C12_Witness ==
  /\ last.op = "EmplaceBack" /\ last.at = "none"
  /\ vec["a"].size_ = 5 /\ Capacity(vec["a"]) = 8

\* The step is the mutation of Vector v that last' reports.
Mutates(v) ==
  \/ last'.op = "EmplaceBack" /\ EmplaceBack(v, last'.x)
  \/ last'.op = "Emplace" /\ Emplace(v, last'.index, last'.x)
  \/ last'.op = "Erase" /\ Erase(v, last'.index)
  \/ last'.op = "Resize" /\ \E n \in Args : Resize(v, n)
  \/ last'.op = "PopBack" /\ PopBack(v)
  \/ last'.op = "Write" /\ Write(v, last'.index, last'.x)

\* The step, if a copy construction or copy assignment that returned, gave
\* the destination the source's size and values and left the source alone.
CopyGivesEqual ==
  (last'.op \in {"CopyCtor", "CopyAssign"} /\ last'.at = "none") =>
    (\A v, w \in Objs :
       (v # w /\ \/ last'.op = "CopyCtor" /\ CopyCtor(v, w)
                 \/ last'.op = "CopyAssign" /\ CopyAssign(v, w))
         => (/\ vec'[v].size_ = vec[w].size_
             /\ Contents(mem', vec'[v]) = Contents(mem, vec[w])
             /\ Untouched(w)))

\* The step, if a mutation of one Vector, left the other alone.
MutationLeavesOther ==
  \A v, w \in Objs : (v # w /\ Mutates(v)) => Untouched(w)

\* C13: a successful copy construction or copy assignment gives the
\* destination the source's size and element values and leaves the source as
\* it was; two Vectors never own the same block, and a mutation of one
\* (append, insert, erase, resize, pop, element write) leaves the other's size,
\* capacity and element values as they were.
C13_CopyIndependence ==
  /\ [](\A v, w \in Objs :
          (v # w /\ vec[v].alive /\ vec[w].alive /\ Buf(vec[v]) # Null)
            => Buf(vec[v]) # Buf(vec[w]))
  /\ [][CopyGivesEqual /\ MutationLeavesOther]_vars

\* An in-place copy assignment returned: both Vectors hold the same elements,
\* in blocks of different capacity.
C13_Witness ==
  /\ last.op = "CopyAssign" /\ last.at = "none"
  /\ vec["a"].alive /\ vec["b"].alive
  /\ vec["a"].size_ >= 1
  /\ Contents(mem, vec["a"]) = Contents(mem, vec["b"])
  /\ Capacity(vec["a"]) # Capacity(vec["b"])

\* The step is the move of Vector w into Vector v that last' reports.
MovesInto(v, w) ==
  \/ last'.op = "MoveCtor" /\ MoveCtor(v, w)
  \/ last'.op = "MoveAssign" /\ MoveAssign(v, w)

\* C14: after move construction or move assignment from a Vector with contents
\* s and capacity c, the destination has size |s|, capacity c and contents s in
\* the source's former block, and the source has size 0 and capacity 0; a move
\* assignment of a Vector to itself leaves it unchanged.
C14_MoveResult ==
  [][\A v, w \in Objs :
       IF v # w
       THEN MovesInto(v, w) =>
              (/\ vec'[v].size_ = vec[w].size_
               /\ vec'[v].data_ = vec[w].data_
               /\ Slots(mem', vec'[v]) = Slots(mem, vec[w])
               /\ Contents(mem', vec'[v]) = Contents(mem, vec[w])
               /\ vec'[w].alive /\ vec'[w].size_ = 0 /\ vec'[w].data_ = NullMemory)
       ELSE MovesInto(v, v) => (\A u \in Objs : Untouched(u))]_vars

\* A move assignment returned that left one Vector with two or more elements
\* and the other, the source, with size 0 and capacity 0.
C14_Witness ==
  /\ last.op = "MoveAssign"
  /\ \E v, w \in Objs : /\ v # w /\ vec[v].alive /\ vec[w].alive
                        /\ vec[v].size_ >= 2
                        /\ vec[w].size_ = 0 /\ Capacity(vec[w]) = 0

\* C15: Reserve(k) with k <= capacity changes nothing (capacity, size, element
\* values, block); a Reserve(k) with k > capacity that returns sets the
\* capacity to exactly k and leaves size and element values as they were.
C15_ReserveResult ==
  [][(last'.op = "Reserve") =>
       (\A n \in Args :
          Reserve("a", n) =>
            IF n <= Capacity(vec["a"])
            THEN last'.at = "none" /\ Untouched("a") /\ NothingLeftBehind
            ELSE (last'.at = "none") =>
                   (/\ Capacity(vec'["a"]) = n
                    /\ vec'["a"].size_ = vec["a"].size_
                    /\ Contents(mem', vec'["a"]) = Contents(mem, vec["a"])))]_vars

\* Reserve returned on a Vector of two elements whose capacity is 3.
C15_Witness ==
  /\ last.op = "Reserve" /\ last.at = "none"
  /\ vec["a"].size_ = 2 /\ Capacity(vec["a"]) = 3

\* n elements with the value T() has.
RECURSIVE Defaults(_)
Defaults(n) == IF n = 0 THEN <<>> ELSE Append(Defaults(n - 1), Default)

\* C16: a Resize(k) that returns sets size to k; with k < size it destroys
\* exactly the size - k trailing elements and leaves contents s[0..k) and the
\* capacity and block as they were; with k > size it leaves s followed by
\* k - size default-valued elements, with capacity max(old capacity, k);
\* Resize(size) changes nothing.
C16_ResizeResult ==
  [][(last'.op = "Resize" /\ last'.at = "none") =>
       (\A k \in Args :
          Resize("a", k) =>
            LET s == Contents(mem, vec["a"])
                size == vec["a"].size_
            IN /\ vec'["a"].size_ = k
               /\ k < size =>
                    (/\ Contents(mem', vec'["a"]) = SubSeq(s, 1, k)
                     /\ vec'["a"].data_ = vec["a"].data_
                     /\ \A i \in (k + 1)..size : Slots(mem', vec'["a"])[i] = Raw
                     /\ \A i \in (size + 1)..Capacity(vec["a"]) :
                          Slots(mem', vec'["a"])[i] = Slots(mem, vec["a"])[i]
                     /\ "double_destroy" \notin mem'.faults)
               /\ k > size =>
                    (/\ Contents(mem', vec'["a"]) = s \o Defaults(k - size)
                     /\ Capacity(vec'["a"]) = Max(Capacity(vec["a"]), k))
               /\ k = size => (Untouched("a") /\ NothingLeftBehind))]_vars

\* A Resize returned that left two elements, the second default-valued after
\* a first that is not, in a block of three slots with nothing live beyond.
C16_Witness ==
  /\ last.op = "Resize" /\ last.at = "none"
  /\ vec["a"].size_ = 2 /\ Capacity(vec["a"]) = 3
  /\ Contents(mem, vec["a"])[1] # Default /\ Contents(mem, vec["a"])[2] = Default

\* C17: Erase at index i, and Emplace at index i with size < capacity, leave
\* the Vector's block and capacity as they were and every element at an index
\* below i as it was, whether they return or throw partway.
C17_PrefixUntouched ==
  [][(\/ last'.op = "Erase"
      \/ last'.op = "Emplace" /\ vec["a"].size_ < Capacity(vec["a"]))
     => /\ vec'["a"].data_ = vec["a"].data_
        /\ \A i \in 1..last'.index :
             Slots(mem', vec'["a"])[i] = Slots(mem, vec["a"])[i]]_vars

\* An Emplace with spare capacity, at an index with elements before it and
\* after it, threw after it had begun to shift.
C17_Witness ==
  /\ last.op = "Emplace" /\ last.at \in {"shift", "assign", "ctor"}
  /\ last.index >= 1 /\ last.index < vec["a"].size_
  /\ vec["a"].size_ < Capacity(vec["a"])

\* The step is a reallocating operation: a growing EmplaceBack or Emplace, or
\* a Reserve beyond the capacity (only such a Reserve throws or changes the
\* capacity).
Reallocating ==
  \/ last'.op \in {"EmplaceBack", "Emplace"} /\ vec["a"].size_ = Capacity(vec["a"])
  \/ last'.op = "Reserve" /\ (last'.at # "none" \/ Capacity(vec'["a"]) # Capacity(vec["a"]))

\* C18: in a reallocating operation the new element is constructed before any
\* element is transferred (a throw in the allocation or in the new element's
\* constructor finds every old element as it was, also when the transfer
\* moves); until every fallible step has succeeded no element of the old
\* block is destroyed, the Vector keeps its block and its size, and the new
\* block is given back; when all have succeeded the Vector adopts the new
\* block, the old one is released with its elements destroyed once, and only
\* then size is incremented.
C18_ConstructBeforeCommit ==
  [][Reallocating =>
       LET old == vec["a"]
           size == vec["a"].size_
       IN /\ last'.at \in {"alloc", "ctor"} => Untouched("a")
          /\ last'.at # "none" =>
               (/\ vec'["a"] = old
                /\ \A i \in 1..size : Slots(mem', old)[i] # Raw
                /\ NothingLeftBehind)
          /\ last'.at = "none" =>
               (/\ Buf(vec'["a"]) # Null /\ Buf(vec'["a"]) # Buf(old)
                /\ Buf(old) # Null => ~mem'.blk[Buf(old)].alloc
                /\ "double_destroy" \notin mem'.faults
                /\ vec'["a"].size_ = IF last'.op = "Reserve" THEN size ELSE size + 1
                /\ \A i \in 1..vec'["a"].size_ : Slots(mem', vec'["a"])[i] # Raw)]_vars

\* The new element's constructor threw in a growing Emplace into the middle of
\* a full Vector whose elements the transfer moves.
C18_Witness ==
  /\ last.op = "Emplace" /\ last.at = "ctor"
  /\ ttype = "NothrowMove"
  /\ vec["a"].size_ = Capacity(vec["a"]) /\ vec["a"].size_ >= 2
  /\ last.index >= 1 /\ last.index < vec["a"].size_

\* C19: an Insert or PushBack whose argument refers to an element of the same
\* Vector inserts the value that element held when the call was made, on the
\* growing path and on the path with spare capacity.
C19_OwnElementInserted ==
  [][(last'.op \in {"InsertOwn", "PushBackOwn"} /\ last'.at = "none")
     => Contents(mem', vec'["a"]) =
          IF last'.op = "PushBackOwn" THEN Append(Contents(mem, vec["a"]), last'.x)
          ELSE InsertAt(Contents(mem, vec["a"]), last'.index, last'.x)]_vars
====
